---- MODULE Spec2Model ----
(***************************************************************************)
(* ExternalSearch (src/external_search.py): an adapter that forwards       *)
(* agricultural queries to a chat-completion endpoint and maps the reply   *)
(* into a result dictionary.                                               *)
(*                                                                         *)
(* Each public coroutine suspends once, at its HTTP request.  A call is    *)
(* therefore two steps: the code up to the request (`*_call`) and the code *)
(* from the reply to the return (`*_resume`).  Several calls may be        *)
(* suspended on the same adapter at once.                                  *)
(*                                                                         *)
(* Queries and messages are strings.  An answer text is the sequence of    *)
(* its characters, so that split, `in` and the URL pattern are computed    *)
(* character by character as the code computes them.                       *)
(***************************************************************************)
EXTENDS Integers, Sequences, FiniteSets, TLC

VARIABLES environ, adapter, tasks

vars == <<environ, adapter, tasks>>

----------------------------------------------------------------------------
(* Bounds *)

\* Concurrent calls in flight on one adapter (SpecConcurrent).
NumTasks == 2

\* Pieces an answer text is assembled from (SpecSources).
MaxPieces == 3

----------------------------------------------------------------------------
(* Python values *)

\* Python's None, where a string is expected.
None == "<None>"

\* str(v) inside an f-string.
str(v) == IF v = None THEN "None" ELSE v

Range(s) == {s[i] : i \in DOMAIN s}

RECURSIVE Flatten(_)
Flatten(ss) == IF ss = <<>> THEN <<>> ELSE Head(ss) \o Flatten(Tail(ss))

\* sep.join(items) for a list of strings.
RECURSIVE join(_, _)
join(sep, items) ==
    IF items = <<>> THEN ""
    ELSE IF Len(items) = 1 THEN items[1]
    ELSE items[1] \o sep \o join(sep, Tail(items))

\* datetime.now().isoformat(), the clock read as the second of a fixed minute.
isoformat(now) ==
    "2024-05-01T10:00:" \o (IF now < 10 THEN "0" ELSE "") \o ToString(now)

----------------------------------------------------------------------------
(* Text: character sequences *)

\* s[i:].startswith(pat)
StartsWithAt(s, i, pat) ==
    /\ i + Len(pat) - 1 <= Len(s)
    /\ SubSeq(s, i, i + Len(pat) - 1) = pat

\* `pat in s` for a non-empty pat.
Contains(s, pat) == \E i \in 1..Len(s) : StartsWithAt(s, i, pat)

\* s.split(sep) for a one-character sep.
RECURSIVE split(_, _)
split(s, sep) ==
    IF \E i \in 1..Len(s) : s[i] = sep
    THEN LET i == CHOOSE k \in 1..Len(s) :
                      s[k] = sep /\ \A j \in 1..(k - 1) : s[j] /= sep
         IN  <<SubSeq(s, 1, i - 1)>> \o split(SubSeq(s, i + 1, Len(s)), sep)
    ELSE <<s>>

Letters ==
    {"a", "b", "c", "d", "e", "f", "g", "h", "i", "j", "k", "l", "m",
     "n", "o", "p", "q", "r", "s", "t", "u", "v", "w", "x", "y", "z",
     "A", "B", "C", "D", "E", "F", "G", "H", "I", "J", "K", "L", "M",
     "N", "O", "P", "Q", "R", "S", "T", "U", "V", "W", "X", "Y", "Z"}

Digits == {"0", "1", "2", "3", "4", "5", "6", "7", "8", "9"}

\* The range [$-_] of the pattern: the ASCII characters from "$" to "_".
DollarToUnderscore ==
    {"$", "%", "&", "'", "(", ")", "*", "+", ",", "-", ".", "/"}
    \cup Digits
    \cup {":", ";", "<", "=", ">", "?", "@"}
    \cup {"A", "B", "C", "D", "E", "F", "G", "H", "I", "J", "K", "L", "M",
          "N", "O", "P", "Q", "R", "S", "T", "U", "V", "W", "X", "Y", "Z"}
    \cup {"[", "\\", "]", "^", "_"}

\* One repetition of the pattern's group:
\* [a-zA-Z] | [0-9] | [$-_@.&+] | [!*\\(\\),] | %[0-9a-fA-F][0-9a-fA-F].
\* The last alternative starts with "%", which [$-_] already takes, and its
\* two hex digits are taken by the first two, so the group matches exactly
\* the maximal run of these characters.
UrlChars ==
    Letters \cup Digits \cup DollarToUnderscore
    \cup {"@", ".", "&", "+"} \cup {"!", "*", "\\", "(", ")", ","}

HTTP == <<"h", "t", "t", "p">>
WWW == <<"w", "w", "w", ".">>
SchemeTail == <<":", "/", "/">>

\* http[s]?:// at position i: the length it takes, 0 when it does not match.
SchemeLenAt(s, i) ==
    IF ~StartsWithAt(s, i, HTTP) THEN 0
    ELSE IF StartsWithAt(s, i + Len(HTTP), <<"s">> \o SchemeTail)
         THEN Len(HTTP) + 1 + Len(SchemeTail)
    ELSE IF StartsWithAt(s, i + Len(HTTP), SchemeTail)
         THEN Len(HTTP) + Len(SchemeTail)
    ELSE 0

\* The last index of the run of UrlChars that starts at j (j - 1: no run).
RECURSIVE RunEnd(_, _)
RunEnd(s, j) ==
    IF j <= Len(s) /\ s[j] \in UrlChars THEN RunEnd(s, j + 1) ELSE j - 1

\* The pattern matched at i: the index its match ends at, 0 for no match.
MatchEnd(s, i) ==
    LET k == SchemeLenAt(s, i)
        e == RunEnd(s, i + k)
    IN  IF k > 0 /\ e >= i + k THEN e ELSE 0

\* re.findall(pattern, s), scanning from position i.
RECURSIVE findall_from(_, _)
findall_from(s, i) ==
    IF i > Len(s) THEN <<>>
    ELSE LET e == MatchEnd(s, i)
         IN  IF e > 0
             THEN <<SubSeq(s, i, e)>> \o findall_from(s, e + 1)
             ELSE findall_from(s, i + 1)

findall(s) == findall_from(s, 1)

\* The loop of _extract_sources: the list `sources` before deduplication.
RECURSIVE scan_lines(_)
scan_lines(lines) ==
    IF lines = <<>> THEN <<>>
    ELSE LET line == Head(lines)
         IN  (IF Contains(line, HTTP) \/ Contains(line, WWW)
              THEN findall(line) ELSE <<>>)
             \o scan_lines(Tail(lines))

\* list(set(sources)): every order of the distinct elements is possible.
list_of_set(S) ==
    {l \in [1..Cardinality(S) -> S] : Range(l) = S}

\* _extract_sources returning `sources` as collected, without list(set(...)).
extract_sources_keep_duplicates(answer) ==
    {scan_lines(split(answer, "\n"))}

\* _extract_sources(answer): the lists it may return.
extract_sources(answer) ==
    list_of_set(Range(scan_lines(split(answer, "\n"))))

----------------------------------------------------------------------------
(* The adapter and its calls *)

BaseUrl == "https://api.perplexity.ai"
SearchTimeout == 30
HealthTimeout == 5
DefaultDays == 7
MaxTokens == 1000

\* search's default for search_type, and the mark of a call that passes none.
Omitted == "<omitted>"
search_type_arg(passed) == IF passed = Omitted THEN "general" ELSE passed

\* ExternalSearch.__init__
init_adapter(env) ==
    [api_key |-> env, base_url |-> BaseUrl, timeout |-> SearchTimeout]

enhancements ==
    [weather |-> "Include temperature, rainfall, humidity, wind speed. Provide daily breakdown.",
     prices  |-> "Include current market prices, price trends, and comparison with previous period.",
     news    |-> "Include recent developments, policy changes, and market updates.",
     alerts  |-> "Include severity level, affected areas, and recommended actions.",
     general |-> "Provide comprehensive agricultural information with sources."]

\* _enhance_query looking the tag up without the fallback to "general".
enhance_query_no_fallback(query, search_type) ==
    LET enhancement == IF search_type \in DOMAIN enhancements
                       THEN enhancements[search_type]
                       ELSE ""
    IN  query \o ". " \o enhancement

\* _enhance_query
enhance_query(query, search_type) ==
    LET enhancement == IF search_type \in DOMAIN enhancements
                       THEN enhancements[search_type]
                       ELSE enhancements["general"]
    IN  query \o ". " \o enhancement

\* The POST of search: URL, headers, timeout and payload.
search_request(query, search_type) ==
    [method        |-> "POST",
     url           |-> adapter.base_url \o "/chat/completions",
     authorization |-> "Bearer " \o str(adapter.api_key),
     content_type  |-> "application/json",
     timeout       |-> adapter.timeout,
     model         |-> "pplx-70b-online",
     system        |-> "You are an agricultural assistant providing current information for Croatian farmers. Always cite sources.",
     user          |-> enhance_query(query, search_type),
     temperature   |-> "0.2",
     max_tokens    |-> MaxTokens]

\* The GET of health_check.
health_request ==
    [method        |-> "GET",
     url           |-> adapter.base_url \o "/models",
     authorization |-> "Bearer " \o str(adapter.api_key),
     timeout       |-> HealthTimeout]

\* What a coroutine ends with.
Return(v, read) == [kind |-> "return", value |-> v, body_read |-> read]
Raise(text, read) == [kind |-> "raise", text |-> text, body_read |-> read]
Pending == [kind |-> "pending"]

\* What response.json() and result['choices'][0]['message']['content'], then
\* answer.split, raise on a body of each form: str(e), or None when the body
\* is a completion with a text content.
body_error(body) ==
    CASE body.form = "not_json"      -> "Expecting value: line 1 column 1 (char 0)"
      [] body.form = "no_choices"    -> "'choices'"
      [] body.form = "empty_choices" -> "list index out of range"
      [] body.form = "null_content"  -> "'NoneType' object has no attribute 'split'"
      [] OTHER                       -> None

\* The lists _extract_sources may return for this reply (the empty list when
\* the call never gets there).
sources_for(resp) ==
    IF resp.kind = "status" /\ resp.code = 200 /\ body_error(resp.body) = None
    THEN extract_sources(resp.body.content)
    ELSE {<<>>}

\* The try block of search taking every 2xx status for a success.
search_try_any_2xx(search_type, resp, now, srcs) ==
    IF resp.kind = "exception" THEN Raise(resp.text, FALSE)
    ELSE IF resp.code >= 200 /\ resp.code < 300
    THEN IF body_error(resp.body) /= None
         THEN Raise(body_error(resp.body), TRUE)
         ELSE Return([success     |-> TRUE,
                      answer      |-> resp.body.content,
                      search_type |-> search_type,
                      sources     |-> srcs,
                      timestamp   |-> isoformat(now)], TRUE)
    ELSE Return([success |-> FALSE,
                 error   |-> "API error: " \o ToString(resp.code),
                 message |-> "Unable to fetch current information"], FALSE)

\* The try block of search reporting the tag whose enhancement was used.
search_try_normalised_type(search_type, resp, now, srcs) ==
    IF resp.kind = "exception" THEN Raise(resp.text, FALSE)
    ELSE IF resp.code = 200
    THEN IF body_error(resp.body) /= None
         THEN Raise(body_error(resp.body), TRUE)
         ELSE Return([success     |-> TRUE,
                      answer      |-> resp.body.content,
                      search_type |-> IF search_type \in DOMAIN enhancements
                                      THEN search_type ELSE "general",
                      sources     |-> srcs,
                      timestamp   |-> isoformat(now)], TRUE)
    ELSE Return([success |-> FALSE,
                 error   |-> "API error: " \o ToString(resp.code),
                 message |-> "Unable to fetch current information"], FALSE)

\* The try block of search, from the reply on.
search_try(search_type, resp, now, srcs) ==
    IF resp.kind = "exception" THEN Raise(resp.text, FALSE)
    ELSE IF resp.code = 200
    THEN IF body_error(resp.body) /= None
         THEN Raise(body_error(resp.body), TRUE)
         ELSE Return([success     |-> TRUE,
                      answer      |-> resp.body.content,
                      search_type |-> search_type,
                      sources     |-> srcs,
                      timestamp   |-> isoformat(now)], TRUE)
    ELSE Return([success |-> FALSE,
                 error   |-> "API error: " \o ToString(resp.code),
                 message |-> "Unable to fetch current information"], FALSE)

\* search filling every key of the envelope in its except branch.
search_uniform_envelope(search_type, resp, now, srcs) ==
    LET o == search_try(search_type, resp, now, srcs)
    IN  IF o.kind = "raise"
        THEN Return([success |-> FALSE,
                     answer  |-> <<>>,
                     error   |-> o.text,
                     message |-> "Search service temporarily unavailable"],
                    o.body_read)
        ELSE o

\* search, from the reply on: the try block and its except Exception.
search(search_type, resp, now, srcs) ==
    LET o == search_try(search_type, resp, now, srcs)
    IN  IF o.kind = "raise"
        THEN Return([success |-> FALSE,
                     error   |-> o.text,
                     message |-> "Search service temporarily unavailable"],
                    o.body_read)
        ELSE o

_parse_weather_response ==
    [summary             |-> "Weather data extracted from response",
     forecast            |-> <<>>,
     agricultural_impact |-> "Suitable for most farming activities"]

_parse_price_response(later) ==
    [commodity     |-> "",
     current_price |-> 0,
     currency      |-> "EUR",
     unit          |-> "ton",
     trend         |-> "stable",
     last_updated  |-> isoformat(later)]

_parse_news_response ==
    <<[title     |-> "Agricultural news item",
       summary   |-> "News summary",
       relevance |-> "high"]>>

_parse_alerts_response ==
    <<[type               |-> "pest",
       name               |-> "Alert name",
       severity           |-> "medium",
       affected_crops     |-> <<>>,
       recommended_action |-> "Monitor fields"]>>

\* The sub-object attached without the test of result["success"].
attach_always(o, key, parsed) ==
    IF o.kind = "return"
    THEN [o EXCEPT !.value = @ @@ (key :> parsed)]
    ELSE o

\* if result["success"]: result[key] = parsed; return result
attach(o, key, parsed) ==
    IF o.kind = "return" /\ o.value.success
    THEN [o EXCEPT !.value = @ @@ (key :> parsed)]
    ELSE o

\* health_check taking every 2xx status for a live service.
health_check_any_2xx(resp) ==
    LET o == IF resp.kind = "exception" THEN Raise(resp.text, FALSE)
             ELSE Return([value |-> (resp.code >= 200 /\ resp.code < 300)], FALSE)
    IN  IF o.kind = "raise" THEN Return([value |-> FALSE], FALSE) ELSE o

\* health_check, from the reply on.
health_check(resp) ==
    LET o == IF resp.kind = "exception" THEN Raise(resp.text, FALSE)
             ELSE Return([value |-> (resp.code = 200)], FALSE)
    IN  IF o.kind = "raise" THEN Return([value |-> FALSE], FALSE) ELSE o

----------------------------------------------------------------------------
(* Tasks: the calls in flight *)

Tasks == 1..NumTasks

Idle ==
    [pc |-> "idle", op |-> None, query |-> None, passed |-> None,
     requests |-> <<>>, response |-> None, overlapped |-> FALSE,
     search_ret |-> Pending, outcome |-> Pending]

\* Whether another call is suspended at its request (kept for the record of
\* a finished call: it resumed while another call was in flight).
InFlight(t) == \E u \in Tasks \ {t} : tasks[u].pc = "awaiting"

\* A call runs to its request and suspends there.
sent(task, op, query, passed, request) ==
    [task EXCEPT !.pc = "awaiting", !.op = op, !.query = query,
                 !.passed = passed, !.requests = Append(@, request)]

\* The reply resumes the call, which runs to its return.
finished(t, resp, search_ret, outcome) ==
    [tasks[t] EXCEPT !.pc = "done", !.response = resp,
                     !.overlapped = InFlight(t),
                     !.search_ret = search_ret, !.outcome = outcome]

Awaiting(t, op) == tasks[t].pc = "awaiting" /\ tasks[t].op = op

search_call(t, query, passed) ==
    /\ tasks[t].pc = "idle"
    /\ tasks' = [tasks EXCEPT ![t] =
          sent(@, "search", query, passed,
               search_request(query, search_type_arg(passed)))]
    /\ UNCHANGED <<environ, adapter>>

\* search sending its request once more after a failed attempt.
search_resume_retry(t, replies, clock) ==
    /\ Awaiting(t, "search")
    /\ \E resp \in replies, now \in clock : \E srcs \in sources_for(resp) :
          LET o == search(search_type_arg(tasks[t].passed), resp, now, srcs)
          IN  IF ~o.value.success /\ Len(tasks[t].requests) < 2
              THEN tasks' = [tasks EXCEPT ![t].requests = Append(@, @[1])]
              ELSE tasks' = [tasks EXCEPT ![t] = finished(t, resp, o, o)]
    /\ UNCHANGED <<environ, adapter>>

search_resume(t, replies, clock) ==
    /\ Awaiting(t, "search")
    /\ \E resp \in replies, now \in clock : \E srcs \in sources_for(resp) :
          LET o == search(search_type_arg(tasks[t].passed), resp, now, srcs)
          IN  tasks' = [tasks EXCEPT ![t] = finished(t, resp, o, o)]
    /\ UNCHANGED <<environ, adapter>>

get_weather_forecast_call(t, location, days) ==
    /\ tasks[t].pc = "idle"
    /\ LET query == "Weather forecast for " \o location \o " next "
                    \o ToString(days)
                    \o " days for farming agricultural planning temperature rainfall humidity"
       IN  tasks' = [tasks EXCEPT ![t] =
              sent(@, "get_weather_forecast", query, "weather",
                   search_request(query, "weather"))]
    /\ UNCHANGED <<environ, adapter>>

get_weather_forecast_resume(t, replies, clock) ==
    /\ Awaiting(t, "get_weather_forecast")
    /\ \E resp \in replies, now \in clock : \E srcs \in sources_for(resp) :
          LET result == search("weather", resp, now, srcs)
          IN  tasks' = [tasks EXCEPT ![t] =
                 finished(t, resp, result,
                          attach(result, "weather_data", _parse_weather_response))]
    /\ UNCHANGED <<environ, adapter>>

get_market_prices_call(t, commodity, market) ==
    /\ tasks[t].pc = "idle"
    /\ LET query == "Current " \o commodity \o " prices in " \o market
                    \o " agricultural market EUR per ton"
       IN  tasks' = [tasks EXCEPT ![t] =
              sent(@, "get_market_prices", query, "prices",
                   search_request(query, "prices"))]
    /\ UNCHANGED <<environ, adapter>>

get_market_prices_resume(t, replies, clock) ==
    /\ Awaiting(t, "get_market_prices")
    /\ \E resp \in replies, now \in clock, later \in clock :
       \E srcs \in sources_for(resp) :
          /\ later >= now
          /\ LET result == search("prices", resp, now, srcs)
             IN  tasks' = [tasks EXCEPT ![t] =
                    finished(t, resp, result,
                             attach(result, "price_data",
                                    _parse_price_response(later)))]
    /\ UNCHANGED <<environ, adapter>>

get_agricultural_news_call(t, topic, region) ==
    /\ tasks[t].pc = "idle"
    /\ LET query == "Recent agricultural news " \o region
                    \o (IF topic /= None /\ topic /= ""
                        THEN " about " \o topic ELSE "")
       IN  tasks' = [tasks EXCEPT ![t] =
              sent(@, "get_agricultural_news", query, "news",
                   search_request(query, "news"))]
    /\ UNCHANGED <<environ, adapter>>

get_agricultural_news_resume(t, replies, clock) ==
    /\ Awaiting(t, "get_agricultural_news")
    /\ \E resp \in replies, now \in clock : \E srcs \in sources_for(resp) :
          LET result == search("news", resp, now, srcs)
          IN  tasks' = [tasks EXCEPT ![t] =
                 finished(t, resp, result,
                          attach(result, "news_items", _parse_news_response))]
    /\ UNCHANGED <<environ, adapter>>

get_pest_disease_alerts_call(t, region, crops) ==
    /\ tasks[t].pc = "idle"
    /\ LET crops_str == join(", ", crops)
           query == "Current pest disease alerts warnings " \o region
                    \o " for " \o crops_str \o " crops"
       IN  tasks' = [tasks EXCEPT ![t] =
              sent(@, "get_pest_disease_alerts", query, "alerts",
                   search_request(query, "alerts"))]
    /\ UNCHANGED <<environ, adapter>>

get_pest_disease_alerts_resume(t, replies, clock) ==
    /\ Awaiting(t, "get_pest_disease_alerts")
    /\ \E resp \in replies, now \in clock : \E srcs \in sources_for(resp) :
          LET result == search("alerts", resp, now, srcs)
          IN  tasks' = [tasks EXCEPT ![t] =
                 finished(t, resp, result,
                          attach(result, "alerts", _parse_alerts_response))]
    /\ UNCHANGED <<environ, adapter>>

\* health_check setting its 5 second timeout on the adapter.
health_check_call_sets_timeout(t) ==
    /\ tasks[t].pc = "idle"
    /\ adapter' = [adapter EXCEPT !.timeout = HealthTimeout]
    /\ tasks' = [tasks EXCEPT ![t] =
          sent(@, "health_check", None, None, health_request)]
    /\ UNCHANGED environ

health_check_call(t) ==
    /\ tasks[t].pc = "idle"
    /\ tasks' = [tasks EXCEPT ![t] =
          sent(@, "health_check", None, None, health_request)]
    /\ UNCHANGED <<environ, adapter>>

health_check_resume(t, replies) ==
    /\ Awaiting(t, "health_check")
    /\ \E resp \in replies :
          tasks' = [tasks EXCEPT ![t] =
             finished(t, resp, Pending, health_check(resp))]
    /\ UNCHANGED <<environ, adapter>>

----------------------------------------------------------------------------
(* Inputs *)

Completion(text) == [form |-> "completion", content |-> text]
Malformed ==
    {[form |-> f] : f \in {"not_json", "no_choices", "empty_choices", "null_content"}}

Status(code, body) == [kind |-> "status", code |-> code, body |-> body]
Exception(text) == [kind |-> "exception", text |-> text]

\* Exception texts of the transport: httpx's timeouts carry an empty message,
\* a refused connection a worded one.
TransportErrors == {"", "All connection attempts failed"}

Chars_see == <<"s", "e", "e">>
Chars_url_a == <<"h", "t", "t", "p", ":", "/", "/", "a", ".", "e", "x">>
Chars_url_b == <<"h", "t", "t", "p", "s", ":", "/", "/", "b">>
Chars_scheme == <<"h", "t", "t", "p", ":", "/", "/">>
Chars_www == <<"w", "w", "w", ".", "c">>

Pieces ==
    {Chars_see, Chars_url_a, Chars_url_b, Chars_scheme, Chars_www,
     <<" ">>, <<"\n">>, <<",">>, <<"#">>}

\* Every text of at most n pieces.
TextsUpTo(n) ==
    {Flatten(ps) : ps \in UNION {[1..k -> Pieces] : k \in 0..n}}

SampleAnswers ==
    {<<>>,
     Flatten(<<Chars_see, <<" ">>, Chars_url_a, <<" ">>, Chars_url_a>>),
     Flatten(<<Chars_www, <<"\n">>, Chars_url_b, <<",">>, <<" ">>, Chars_url_a>>)}

\* Sequential use: one call at a time, every kind of argument and reply.
SeqIn ==
    [tasks     |-> {1},
     env       |-> {None, "pplx-key"},
     queries   |-> {"rain", "soil"},
     types     |-> {Omitted, "general", "weather", "prices", "news", "alerts", "forecast"},
     locations |-> {"Zagreb"},
     days      |-> {DefaultDays, 5},
     commodity |-> {"wheat"},
     markets   |-> {"Croatia", "EU"},
     topics    |-> {None, "", "subsidies"},
     regions   |-> {"Croatia", "Slavonia"},
     crops     |-> {<<>>, <<"wheat">>, <<"wheat", "maize">>},
     replies   |-> {Status(200, Completion(a)) : a \in SampleAnswers}
                   \cup {Status(200, b) : b \in Malformed}
                   \cup {Status(c, b) : c \in {201, 404, 429, 500},
                                        b \in {[form |-> "not_json"], Completion(<<>>)}}
                   \cup {Exception(e) : e \in TransportErrors},
     clock     |-> {7, 42}]

\* Source extraction: every answer text of at most MaxPieces pieces.
SourcesIn ==
    [SeqIn EXCEPT
       !.env       = {"pplx-key"},
       !.queries   = {"rain"},
       !.types     = {Omitted},
       !.days      = {DefaultDays},
       !.markets   = {"Croatia"},
       !.topics    = {None},
       !.regions   = {"Croatia"},
       !.crops     = {<<"wheat">>},
       !.replies   = {Status(200, Completion(a)) : a \in TextsUpTo(MaxPieces)}
                     \cup {Status(429, [form |-> "not_json"]), Exception("")},
       !.clock     = {7}]

\* Concurrent use: NumTasks calls in flight on the one adapter.
ConcurrentIn ==
    [SourcesIn EXCEPT
       !.tasks     = Tasks,
       !.types     = {Omitted, "forecast"},
       !.replies   = {Status(200, Completion(Chars_url_a)),
                      Status(200, Completion(Chars_see)),
                      Status(429, [form |-> "not_json"]),
                      Exception("All connection attempts failed")}]

----------------------------------------------------------------------------
(* Specifications *)

InitIn(In) ==
    /\ environ \in In.env
    /\ adapter = init_adapter(environ)
    /\ tasks = [t \in Tasks |-> Idle]

StepIn(In) ==
    \E t \in In.tasks :
        \/ \E q \in In.queries, st \in In.types : search_call(t, q, st)
        \/ \E l \in In.locations, d \in In.days :
              get_weather_forecast_call(t, l, d)
        \/ \E c \in In.commodity, m \in In.markets :
              get_market_prices_call(t, c, m)
        \/ \E tp \in In.topics, r \in In.regions :
              get_agricultural_news_call(t, tp, r)
        \/ \E r \in In.regions, cs \in In.crops :
              get_pest_disease_alerts_call(t, r, cs)
        \/ health_check_call(t)
        \/ search_resume(t, In.replies, In.clock)
        \/ get_weather_forecast_resume(t, In.replies, In.clock)
        \/ get_market_prices_resume(t, In.replies, In.clock)
        \/ get_agricultural_news_resume(t, In.replies, In.clock)
        \/ get_pest_disease_alerts_resume(t, In.replies, In.clock)
        \/ health_check_resume(t, In.replies)

Init == InitIn(SeqIn)
Next == StepIn(SeqIn)
Spec == Init /\ [][Next]_vars

InitSources == InitIn(SourcesIn)
NextSources == StepIn(SourcesIn)
SpecSources == InitSources /\ [][NextSources]_vars

InitConcurrent == InitIn(ConcurrentIn)
NextConcurrent == StepIn(ConcurrentIn)
SpecConcurrent == InitConcurrent /\ [][NextConcurrent]_vars

----------------------------------------------------------------------------
(* Properties *)

Done(t) == tasks[t].pc = "done"
Called(t) == tasks[t].pc \in {"awaiting", "done"}

DomainOps ==
    {"get_weather_forecast", "get_market_prices", "get_agricultural_news",
     "get_pest_disease_alerts"}
SearchOps == {"search"} \cup DomainOps

Tags == {"general", "weather", "prices", "news", "alerts"}

Keys(r) == DOMAIN r

Unavailable == "Search service temporarily unavailable"
UnableToFetch == "Unable to fetch current information"

\* A reply with which the request failed in transport, or whose status is 200
\* and whose body is not JSON or lacks choices[0].message.content.
TransportFailure(resp) == resp.kind = "exception"
MalformedBody(resp) ==
    resp.kind = "status" /\ resp.code = 200 /\ resp.body.form /= "completion"
WellFormed200(resp) ==
    resp.kind = "status" /\ resp.code = 200 /\ resp.body.form = "completion"
Non200(resp) == resp.kind = "status" /\ resp.code /= 200

\* The text of the exception that a failed transport or a malformed body
\* raises inside search.
ExceptionText(resp) ==
    IF resp.kind = "exception" THEN resp.text ELSE body_error(resp.body)

\* C1: whenever the POST of a search call fails in transport or times out, or
\* its status-200 reply has a malformed body, the call returns (it does not
\* raise) a result with success = false, a NON-EMPTY error equal to the
\* exception's text, and message = "Search service temporarily unavailable".
\* The code returns str(e), which is empty for an exception that carries no
\* message (httpx's timeouts), so this fails.
C1_FailureHasNonEmptyError ==
    \A t \in Tasks :
        (Done(t) /\ tasks[t].op = "search"
         /\ (TransportFailure(tasks[t].response) \/ MalformedBody(tasks[t].response)))
        => /\ tasks[t].outcome.kind = "return"
           /\ tasks[t].outcome.value.success = FALSE
           /\ tasks[t].outcome.value.error = ExceptionText(tasks[t].response)
           /\ tasks[t].outcome.value.error /= ""
           /\ tasks[t].outcome.value.message = Unavailable

\* The error text the claim gives for each status, written out.
ApiErrorText ==
    (201 :> "API error: 201") @@ (404 :> "API error: 404")
    @@ (429 :> "API error: 429") @@ (500 :> "API error: 500")

\* C2: for every status other than 200, search returns exactly
\* {success: false, error: "API error: <status>", message: "Unable to fetch
\* current information"}: no answer, sources or timestamp, and the body of
\* the reply is not read.
C2_Non200IsApiError ==
    \A t \in Tasks :
        (Done(t) /\ tasks[t].op = "search" /\ Non200(tasks[t].response))
        => /\ tasks[t].outcome.kind = "return"
           /\ tasks[t].outcome.value =
                 [success |-> FALSE,
                  error   |-> ApiErrorText[tasks[t].response.code],
                  message |-> UnableToFetch]
           /\ Keys(tasks[t].outcome.value) \cap {"answer", "sources", "timestamp"} = {}
           /\ ~tasks[t].outcome.body_read

C2_Witness ==
    /\ Done(1) /\ tasks[1].op = "search"
    /\ tasks[1].response = Status(429, Completion(<<>>))
    /\ tasks[1].outcome.value.error = "API error: 429"

\* C3: every result returned by search and by the four domain operations has
\* exactly one of answer and error: answer is a key iff success is true, and
\* error and message are keys iff success is false.
C3_AnswerXorError ==
    \A t \in Tasks :
        (Done(t) /\ tasks[t].op \in SearchOps)
        => /\ tasks[t].outcome.kind = "return"
           /\ LET r == tasks[t].outcome.value
              IN  /\ r.success \in BOOLEAN
                  /\ ("answer" \in Keys(r)) <=> r.success
                  /\ ("error" \in Keys(r)) <=> ~r.success
                  /\ ("message" \in Keys(r)) <=> ~r.success
                  /\ ("answer" \in Keys(r)) /= ("error" \in Keys(r))

C3_Witness ==
    /\ Done(1) /\ tasks[1].op = "get_market_prices"
    /\ tasks[1].outcome.value.success
    /\ "answer" \in Keys(tasks[1].outcome.value)
    /\ "error" \notin Keys(tasks[1].outcome.value)

\* C4: a call of search or of a domain operation sends exactly one POST: one
\* request is on record from the moment the call suspends, and it is still
\* the only one when the call has returned, whatever the reply was; a reply
\* that is not a well-formed 200 ends the call with a failure result.
C4_ExactlyOnePost ==
    \A t \in Tasks :
        (Called(t) /\ tasks[t].op \in SearchOps)
        => /\ Len(tasks[t].requests) = 1
           /\ tasks[t].requests[1].method = "POST"
           /\ (Done(t) /\ ~WellFormed200(tasks[t].response))
              => /\ tasks[t].outcome.kind = "return"
                 /\ ~tasks[t].outcome.value.success

C4_Witness ==
    /\ Done(1) /\ tasks[1].op = "get_agricultural_news"
    /\ tasks[1].response = Status(500, [form |-> "not_json"])
    /\ Len(tasks[1].requests) = 1
    /\ ~tasks[1].outcome.value.success

\* The key each domain operation adds.
SubObjectKey ==
    [get_weather_forecast    |-> "weather_data",
     get_market_prices       |-> "price_data",
     get_agricultural_news   |-> "news_items",
     get_pest_disease_alerts |-> "alerts"]

\* C5: a domain operation returns what its one delegated search call
\* returned, every key of it unchanged, plus its own sub-object iff that
\* result has success = true; on failure it returns search's result as it is.
C5_DomainPropagates ==
    \A t \in Tasks :
        (Done(t) /\ tasks[t].op \in DomainOps)
        => /\ tasks[t].outcome.kind = "return"
           /\ tasks[t].search_ret.kind = "return"
           /\ Len(tasks[t].requests) = 1
           /\ LET r == tasks[t].outcome.value
                  s == tasks[t].search_ret.value
                  key == SubObjectKey[tasks[t].op]
              IN  /\ key \notin Keys(s)
                  /\ \A k \in Keys(s) : k \in Keys(r) /\ r[k] = s[k]
                  /\ s.success => Keys(r) = Keys(s) \cup {key}
                  /\ ~s.success => r = s

C5_Witness ==
    /\ Done(1) /\ tasks[1].op = "get_weather_forecast"
    /\ tasks[1].search_ret.value.success
    /\ Keys(tasks[1].outcome.value.weather_data)
          = {"summary", "forecast", "agricultural_impact"}

\* The enhancement table as the specification gives it.
TableSuffix(tag) ==
    CASE tag = "weather" -> "Include temperature, rainfall, humidity, wind speed. Provide daily breakdown."
      [] tag = "prices"  -> "Include current market prices, price trends, and comparison with previous period."
      [] tag = "news"    -> "Include recent developments, policy changes, and market updates."
      [] tag = "alerts"  -> "Include severity level, affected areas, and recommended actions."
      [] OTHER           -> "Provide comprehensive agricultural information with sources."

TagUsed(t) == IF tasks[t].passed = Omitted THEN "general" ELSE tasks[t].passed

\* C6 as stated: the user message is the query followed by exactly the
\* table's suffix for the search_type (the general suffix for any other
\* tag).  The code puts ". " between them, so this fails.
C6_MessageIsQueryThenSuffix ==
    \A t \in Tasks :
        (Called(t) /\ tasks[t].op \in SearchOps)
        => tasks[t].requests[1].user = tasks[t].query \o TableSuffix(TagUsed(t))

\* C6 amended: the user message is the query, then ". ", then exactly the
\* table's suffix for the search_type; a tag outside the five gets the
\* general suffix and no error.
C6_MessageIsQueryDotSuffix ==
    \A t \in Tasks :
        (Called(t) /\ tasks[t].op \in SearchOps)
        => tasks[t].requests[1].user
              = tasks[t].query \o ". " \o TableSuffix(TagUsed(t))

C6_Witness ==
    /\ Called(1) /\ tasks[1].op = "search" /\ tasks[1].passed = "forecast"
    /\ tasks[1].requests[1].user
          = "rain. Provide comprehensive agricultural information with sources."

\* C7 as stated: in every successful result of search the search_type field
\* is one of the five tags, and is "general" when the caller passed no tag
\* or a tag outside the five.  The code echoes the tag it was passed, so this
\* fails.
C7_ResultTypeIsNormalised ==
    \A t \in Tasks :
        (Done(t) /\ tasks[t].op = "search" /\ tasks[t].outcome.value.success)
        => /\ tasks[t].outcome.value.search_type \in Tags
           /\ (tasks[t].passed = Omitted \/ tasks[t].passed \notin Tags)
              => tasks[t].outcome.value.search_type = "general"

\* C7 amended: in every successful result of search the search_type field
\* is the tag the caller passed, unchanged (also a tag outside the five), and
\* is "general" when the caller passed none.
C7_ResultTypeIsPassedTag ==
    \A t \in Tasks :
        (Done(t) /\ tasks[t].op = "search" /\ tasks[t].outcome.value.success)
        => /\ tasks[t].passed = Omitted
              => tasks[t].outcome.value.search_type = "general"
           /\ tasks[t].passed /= Omitted
              => tasks[t].outcome.value.search_type = tasks[t].passed

C7_Witness ==
    /\ Done(1) /\ tasks[1].op = "search" /\ tasks[1].passed = "forecast"
    /\ tasks[1].outcome.value.success
    /\ tasks[1].outcome.value.search_type = "forecast"

\* C8: health_check sends one GET to the models endpoint and returns true
\* iff the reply's status is exactly 200; for any other status and for any
\* transport exception it returns false, and it never raises.
C8_HealthIffStatus200 ==
    \A t \in Tasks :
        (Done(t) /\ tasks[t].op = "health_check")
        => /\ tasks[t].outcome.kind = "return"
           /\ tasks[t].outcome.value.value
                 <=> (tasks[t].response.kind = "status"
                      /\ tasks[t].response.code = 200)
           /\ Len(tasks[t].requests) = 1
           /\ tasks[t].requests[1].method = "GET"
           /\ tasks[t].requests[1].url = "https://api.perplexity.ai/models"

C8_Witness ==
    /\ Done(1) /\ tasks[1].op = "health_check"
    /\ tasks[1].response.kind = "status" /\ tasks[1].response.code = 201
    /\ tasks[1].outcome.value.value = FALSE

\* The URL pattern at i, ending at e: "http://" or "https://", then the
\* characters of the pattern's class up to e, where the class stops.
PatternAt(s, i, e) ==
    \E scheme \in {<<"h", "t", "t", "p", ":", "/", "/">>,
                   <<"h", "t", "t", "p", "s", ":", "/", "/">>} :
        /\ StartsWithAt(s, i, scheme)
        /\ e >= i + Len(scheme)
        /\ e <= Len(s)
        /\ \A j \in (i + Len(scheme))..e : s[j] \in UrlChars
        /\ e = Len(s) \/ s[e + 1] \notin UrlChars

\* The URL-looking substrings of a text: the substrings that match the URL
\* pattern and do not lie inside another such substring.
UrlLooking(s) ==
    {SubSeq(s, w[1], w[2]) :
        w \in {v \in (1..Len(s)) \X (1..Len(s)) :
                  /\ PatternAt(s, v[1], v[2])
                  /\ ~\E i \in 1..(v[1] - 1), e \in v[1]..Len(s) :
                        PatternAt(s, i, e)}}

C10_CallsAreIsolated ==
    /\ adapter = [api_key |-> environ, base_url |-> "https://api.perplexity.ai",
                  timeout |-> 30]
    /\ \A t \in Tasks :
        /\ (Called(t) /\ tasks[t].op \in SearchOps)
           => /\ tasks[t].requests[1].user
                    = tasks[t].query \o ". " \o TableSuffix(TagUsed(t))
              /\ tasks[t].requests[1].timeout = 30
              /\ tasks[t].requests[1].url
                    = "https://api.perplexity.ai/chat/completions"
              /\ tasks[t].requests[1].authorization
                    = "Bearer " \o (IF environ = None THEN "None" ELSE environ)
        /\ (Done(t) /\ tasks[t].op \in SearchOps)
           => LET r == tasks[t].outcome.value
                  own == tasks[t].response
              IN  /\ r.success <=> WellFormed200(own)
                  /\ WellFormed200(own)
                     => r.answer = own.body.content /\ r.search_type = TagUsed(t)
                  /\ Non200(own) => r.error = "API error: " \o ToString(own.code)
                  /\ TransportFailure(own) => r.error = own.text
        /\ (Done(t) /\ tasks[t].op = "health_check")
           => tasks[t].outcome.value.value
                 <=> (tasks[t].response.kind = "status"
                      /\ tasks[t].response.code = 200)

C10_Witness ==
    /\ Done(1) /\ tasks[1].overlapped /\ tasks[1].op = "search"
    /\ tasks[1].outcome.value.success
    /\ Done(2) /\ tasks[2].op = "get_market_prices"
    /\ ~tasks[2].outcome.value.success
    /\ tasks[2].outcome.value.error = "API error: 429"

====
